---- MODULE Spec2Model ----
(***************************************************************************)
(* gh-overseer: the fetch / classify / aggregate pipeline.                 *)
(*   src/src/stats.rs    Stats: filters, classification, counters, merge   *)
(*   src/src/fetcher.rs  Fetcher: the four fetch operations                *)
(*   src/src/main.rs     main: one worker per repository, join, drain      *)
(* Strings that the code inspects character by character (comment bodies,  *)
(* LGTM markers, repository identifiers) are sequences of one-character    *)
(* strings; user names are only compared, and stay TLA+ strings.           *)
(* Option<T> is a sequence of length 0 (None) or 1 (Some).                 *)
(* DateTime<Utc> is an integer number of microseconds.                     *)
(***************************************************************************)
EXTENDS Integers, Sequences, FiniteSets, TLC

VARIABLES
    repos,      \* config.review_repos(): the configured identifiers
    pc,         \* where main is: "spawn", "join", "drain", "done", "exited"
    idx,        \* index of the for loop main is in (spawn loop, join loop)
    worker,     \* per spawned repository task: position, Stats, locals
    chan,       \* per worker, per fetch: the spawned fetch task and its channel
    tx_count,   \* live senders of the handoff channel (tx and its clones)
    rx,         \* the handoff channel: Stats sent and not yet received
    stats,      \* main's `stats: Option<Stats>`, the running total
    self,       \* harness: the Stats an operation is applied to
    arg,        \* harness: the argument(s) of the operation applied
    op,         \* harness: the operation applied ("new" before any)
    out         \* harness: what the operation produced

vars == <<repos, pc, idx, worker, chan, tx_count, rx, stats, self, arg, op, out>>
pipeline_vars == <<repos, pc, idx, worker, chan, tx_count, rx, stats>>
harness_vars == <<self, arg, op, out>>

---------------------------------------------------------------------------
(* Bounds of the model. *)

\* Instants are 0..MaxTime; the window used is [1, MaxTime - 1], so 0 is one
\* microsecond before start and MaxTime one microsecond after end.
MaxTime == 4
\* Longest comment body drawn when a classification is checked on all bodies.
MaxBodyLen == 3
\* Largest count of an entry of an Aggregate drawn for the merge laws.
MaxCount == 2
\* Longest batch the batch harnesses draw.
MaxBatch == 2
\* Longest list of issue or pull-request numbers the fetch harness draws.
MaxIds == 3

None == <<>>
Some(x) == <<x>>
is_some(o) == o # <<>>
is_none(o) == o = <<>>
unwrap(o) == o[1]

Times == 0..MaxTime
\* The window of the run: start_time and end_time of main.
Window == [start |-> 1, end |-> MaxTime - 1]

---------------------------------------------------------------------------
(* str: trim and contains, as the standard library computes them. *)

Whitespace == {" "}

RECURSIVE trim_start(_)
trim_start(s) ==
    IF s # <<>> /\ Head(s) \in Whitespace THEN trim_start(Tail(s)) ELSE s

RECURSIVE trim_end(_)
trim_end(s) ==
    IF s # <<>> /\ s[Len(s)] \in Whitespace
    THEN trim_end(SubSeq(s, 1, Len(s) - 1))
    ELSE s

trim(s) == trim_end(trim_start(s))

contains(haystack, needle) ==
    \E k \in 0..(Len(haystack) - Len(needle)) :
        SubSeq(haystack, k + 1, k + Len(needle)) = needle

\* str::split_once('/'): None without a '/', else the parts around the first.
split_once(s) ==
    IF \E k \in 1..Len(s) : s[k] = "/"
    THEN LET k == CHOOSE j \in 1..Len(s) :
                      s[j] = "/" /\ \A h \in 1..(j - 1) : s[h] # "/"
         IN Some(<<SubSeq(s, 1, k - 1), SubSeq(s, k + 1, Len(s))>>)
    ELSE None

---------------------------------------------------------------------------
(* stats.rs: Stats. *)

Categories == {"issues", "prs", "issue_comments", "pr_reviews", "lgtms", "labels"}

EmptyMap == [u \in {} |-> 0]

\* HashMap::entry(user).or_insert(0), then `*count += delta`.
entry_add(map, user, delta) ==
    [u \in (DOMAIN map) \cup {user} |->
        IF u = user
        THEN (IF user \in DOMAIN map THEN map[user] ELSE 0) + delta
        ELSE map[u]]

\* Mutant of Stats_new: every map starts with each configured user at 0.
Stats_new_zeroed(users, lgtm_comments, start_time, end_time) ==
    LET zeroed == [u \in users |-> 0]
    IN [issues |-> zeroed, prs |-> zeroed, issue_comments |-> zeroed,
        pr_reviews |-> zeroed, lgtms |-> zeroed, labels |-> zeroed,
        allowed_users |-> users, lgtm_comments |-> lgtm_comments,
        start_time |-> start_time, end_time |-> end_time]

Stats_new(users, lgtm_comments, start_time, end_time) ==
    [issues |-> EmptyMap, prs |-> EmptyMap, issue_comments |-> EmptyMap,
     pr_reviews |-> EmptyMap, lgtms |-> EmptyMap, labels |-> EmptyMap,
     allowed_users |-> users, lgtm_comments |-> lgtm_comments,
     start_time |-> start_time, end_time |-> end_time]

\* Mutant of within_time_range: the end of the window is excluded.
within_time_range_open_end(s, date_time) ==
    s.start_time <= date_time /\ date_time < s.end_time

within_time_range(s, date_time) ==
    s.start_time <= date_time /\ date_time <= s.end_time

\* Mutant of is_user_allowed: no user is refused.
is_user_allowed_anyone(s, user) == user \in s.allowed_users \/ user # ""

is_user_allowed(s, user) == user \in s.allowed_users

\* Mutant of is_comment_lgtm: every configured marker must be contained.
is_comment_lgtm_all(s, comment) ==
    \A k \in 1..Len(s.lgtm_comments) : contains(comment, s.lgtm_comments[k])

is_comment_lgtm(s, comment) ==
    \E k \in 1..Len(s.lgtm_comments) : contains(comment, s.lgtm_comments[k])

add_issue(s, user) == [s EXCEPT !.issues = entry_add(@, user, 1)]
\* Mutant of add_pr: a pull request also counts as a label of its author.
add_pr_with_label(s, user) ==
    [s EXCEPT !.prs = entry_add(@, user, 1), !.labels = entry_add(@, user, 1)]

add_pr(s, user) == [s EXCEPT !.prs = entry_add(@, user, 1)]
add_issue_comment(s, user) == [s EXCEPT !.issue_comments = entry_add(@, user, 1)]
add_pr_review(s, user) == [s EXCEPT !.pr_reviews = entry_add(@, user, 1)]
add_lgtm(s, user) == [s EXCEPT !.lgtms = entry_add(@, user, 1)]
add_label(s, user) == [s EXCEPT !.labels = entry_add(@, user, 1)]

\* comment.user.as_ref().map_or("", |auth| &auth.login)
login_or_empty(user) == IF is_some(user) THEN unwrap(user) ELSE ""

filter_issues(s, issue) ==
    LET user_allowed == is_user_allowed(s, issue.user)
        in_range == within_time_range(s, issue.created_at)
    IN ~user_allowed \/ ~in_range

filter_issue_comment(s, comment) ==
    LET user_allowed == is_user_allowed(s, comment.user)
        in_range == within_time_range(s, comment.created_at)
                    \/ (is_some(comment.updated_at)
                        /\ within_time_range(s, unwrap(comment.updated_at)))
    IN ~user_allowed \/ ~in_range

filter_pull_request_comment(s, comment) ==
    LET user == login_or_empty(comment.user)
        user_allowed == is_user_allowed(s, user)
        in_range == within_time_range(s, comment.created_at)
                    \/ within_time_range(s, comment.updated_at)
    IN ~user_allowed \/ ~in_range

filter_pull_request_review(s, review) ==
    LET user == login_or_empty(review.user)
        user_allowed == is_user_allowed(s, user)
        in_range == is_some(review.submitted_at)
                    /\ within_time_range(s, unwrap(review.submitted_at))
    IN ~user_allowed \/ ~in_range

\* The closure bodies of the four for_each loops.
\* Mutant of visit_issue: the pull-request marker is read the wrong way round.
visit_issue_swapped(s, issue) ==
    IF filter_issues(s, issue) THEN s
    ELSE IF issue.pull_request THEN add_issue(s, issue.user)
    ELSE add_pr(s, issue.user)

visit_issue(s, issue) ==
    IF filter_issues(s, issue) THEN s
    ELSE IF issue.pull_request THEN add_pr(s, issue.user)
    ELSE add_issue(s, issue.user)

\* Mutant of visit_issue_comment: the body is scanned for a marker as a PR
\* line comment's is.
visit_issue_comment_scanned(s, comment) ==
    IF filter_issue_comment(s, comment) THEN s
    ELSE IF is_comment_lgtm(s, trim(comment.body))
         THEN add_lgtm(s, comment.user)
         ELSE add_issue_comment(s, comment.user)

visit_issue_comment(s, comment) ==
    IF filter_issue_comment(s, comment) THEN s
    ELSE add_issue_comment(s, comment.user)

visit_pull_request_comment(s, comment) ==
    IF filter_pull_request_comment(s, comment) THEN s
    ELSE LET user == login_or_empty(comment.user)
         IN IF is_comment_lgtm(s, trim(comment.body))
            THEN add_lgtm(s, user)
            ELSE add_pr_review(s, user)

\* Mutant of visit_pull_request_review: any review that has a state counts.
visit_pull_request_review_any_state(s, review) ==
    IF filter_pull_request_review(s, review) THEN s
    ELSE IF is_some(review.state) THEN add_lgtm(s, login_or_empty(review.user))
    ELSE s

\* Mutant of visit_pull_request_review: an approval counts only for a user
\* who has no LGTM yet.
visit_pull_request_review_once(s, review) ==
    IF filter_pull_request_review(s, review) THEN s
    ELSE LET user == login_or_empty(review.user)
         IN IF is_some(review.state) /\ unwrap(review.state) = "Approved"
               /\ user \notin DOMAIN s.lgtms
            THEN add_lgtm(s, user)
            ELSE s

visit_pull_request_review(s, review) ==
    IF filter_pull_request_review(s, review) THEN s
    ELSE LET user == login_or_empty(review.user)
         IN IF is_some(review.state) /\ unwrap(review.state) = "Approved"
            THEN add_lgtm(s, user)
            ELSE s

RECURSIVE traverse_issues(_, _)
traverse_issues(s, issues) ==
    IF issues = <<>> THEN s
    ELSE traverse_issues(visit_issue(s, Head(issues)), Tail(issues))

RECURSIVE traverse_issue_comments(_, _)
traverse_issue_comments(s, issue_comments) ==
    IF issue_comments = <<>> THEN s
    ELSE traverse_issue_comments(visit_issue_comment(s, Head(issue_comments)),
                                 Tail(issue_comments))

RECURSIVE traverse_pull_request_comments(_, _)
traverse_pull_request_comments(s, pull_request_comments) ==
    IF pull_request_comments = <<>> THEN s
    ELSE traverse_pull_request_comments(
             visit_pull_request_comment(s, Head(pull_request_comments)),
             Tail(pull_request_comments))

RECURSIVE traverse_pull_request_reviews(_, _)
traverse_pull_request_reviews(s, reviews) ==
    IF reviews = <<>> THEN s
    ELSE traverse_pull_request_reviews(
             visit_pull_request_review(s, Head(reviews)), Tail(reviews))

\* Mutant of merge_map: the base map is replaced by the added one.
merge_map_replace(base, added) == added

\* Mutant of merge_map: the entry is overwritten with delta, not added to.
merge_map_overwrite(base, added) ==
    [u \in (DOMAIN base) \cup (DOMAIN added) |->
        IF u \in DOMAIN added THEN added[u] ELSE base[u]]

\* for (user, delta) in added { *base.entry(user).or_insert(0) += *delta }
\* (HashMap iteration order is arbitrary; CHOOSE picks one order.)
RECURSIVE merge_map(_, _)
merge_map(base, added) ==
    IF DOMAIN added = {} THEN base
    ELSE LET user == CHOOSE u \in DOMAIN added : TRUE
             rest == [u \in (DOMAIN added) \ {user} |-> added[u]]
         IN merge_map(entry_add(base, user, added[user]), rest)

\* Mutant of merge: other's prs are merged into self's issues and the
\* reverse.
merge_crossed(s, other) ==
    [s EXCEPT !.issues = merge_map(@, other.prs),
              !.prs = merge_map(@, other.issues),
              !.issue_comments = merge_map(@, other.issue_comments),
              !.pr_reviews = merge_map(@, other.pr_reviews),
              !.lgtms = merge_map(@, other.lgtms),
              !.labels = merge_map(@, other.labels)]

merge(s, other) ==
    [s EXCEPT !.issues = merge_map(@, other.issues),
              !.prs = merge_map(@, other.prs),
              !.issue_comments = merge_map(@, other.issue_comments),
              !.pr_reviews = merge_map(@, other.pr_reviews),
              !.lgtms = merge_map(@, other.lgtms),
              !.labels = merge_map(@, other.labels)]

\* The six counter maps of a Stats, without its filter policy.
counter_maps(s) == [c \in Categories |-> s[c]]

\* A user's count in a map: the entry, or 0 when there is none.
count_of(map, user) == IF user \in DOMAIN map THEN map[user] ELSE 0

---------------------------------------------------------------------------
(* The configuration and the remote service (the Source Client's answers). *)

Str_LGTM == <<"L", "G", "T", "M">>
Str_lgtm == <<"l", "g", "t", "m">>
Str_nit == <<" ", "n", "i", "t", " ">>

ConfigUsers == {"alice", "bob"}
ConfigLgtmComments == <<Str_LGTM>>

RepoA == <<"o", "/", "a">>
RepoB == <<"o", "/", "b">>
RepoC == <<"o", "/", "c">>
Malformed == <<"o", "b">>
\* The lists config.review_repos() may hold.
RepoConfigs ==
    {<<RepoA, RepoB>>, <<RepoA, Malformed>>, <<Malformed, RepoA>>, <<RepoA>>, <<>>}

Issue(number, user, created_at, pull_request) ==
    [number |-> number, user |-> user, created_at |-> created_at,
     pull_request |-> pull_request]
IssueComment(user, created_at, updated_at, body) ==
    [user |-> user, created_at |-> created_at, updated_at |-> updated_at,
     body |-> body]
PullComment(user, created_at, updated_at, body) ==
    [user |-> user, created_at |-> created_at, updated_at |-> updated_at,
     body |-> body]
Review(user, submitted_at, state) ==
    [user |-> user, submitted_at |-> submitted_at, state |-> state]

\* What the remote holds for a repository (owner, repo_name): the issue list,
\* the comments of each issue, the PR line comments, the reviews of each PR.
RemoteIssues(repo) ==
    IF repo[2] = <<"a">>
    THEN <<Issue(1, "bob", 2, FALSE), Issue(2, "bob", Window.start, FALSE),
           Issue(3, "alice", 2, TRUE), Issue(4, "mallory", 2, TRUE)>>
    ELSE IF repo[2] = <<"c">>
    THEN <<Issue(20, "mallory", 2, FALSE), Issue(21, "mallory", 2, TRUE)>>
    ELSE <<Issue(7, "bob", 2, FALSE), Issue(8, "bob", Window.end, FALSE),
           Issue(9, "bob", Window.start, FALSE), Issue(10, "bob", MaxTime, FALSE),
           Issue(11, "alice", 0, TRUE)>>

RemoteIssueComments(repo, issue_id) ==
    CASE issue_id = 1 -> <<IssueComment("alice", 2, None, Str_nit),
                           IssueComment("mallory", 2, None, Str_LGTM)>>
      [] issue_id = 2 -> <<IssueComment("bob", 0, Some(Window.start), Str_LGTM)>>
      [] issue_id = 7 -> <<IssueComment("bob", 2, Some(MaxTime), Str_nit)>>
      [] OTHER -> <<>>

RemotePullComments(repo) ==
    IF repo[2] = <<"a">>
    THEN <<PullComment(Some("alice"), 2, 2, <<" ">> \o Str_LGTM \o <<",", " ", "t", "y">>),
           PullComment(Some("bob"), 0, MaxTime, Str_LGTM),
           PullComment(Some("bob"), 0, Window.end, Str_nit),
           PullComment(None, 2, 2, Str_LGTM),
           PullComment(Some("mallory"), 2, 2, Str_LGTM)>>
    ELSE IF repo[2] = <<"c">>
    THEN <<>>
    ELSE <<PullComment(Some("alice"), 2, 2, Str_lgtm)>>

RemoteReviews(repo, pull_request_id) ==
    CASE pull_request_id = 3 -> <<Review(Some("bob"), Some(2), Some("Approved")),
                                  Review(Some("bob"), Some(2), Some("Commented")),
                                  Review(Some("alice"), Some(MaxTime), Some("Approved")),
                                  Review(Some("mallory"), Some(2), Some("Approved"))>>
      [] pull_request_id = 11 -> <<Review(Some("alice"), Some(Window.end), Some("Approved")),
                                   Review(Some("alice"), None, Some("Approved"))>>
      [] OTHER -> <<>>

---------------------------------------------------------------------------
(* fetcher.rs: Fetcher. *)

\* Mutant of Fetcher_new: an identifier without a '/' is taken as a bare
\* repository name instead of being refused.
Fetcher_new_lenient(repo) ==
    LET parts == split_once(repo)
    IN IF is_some(parts) THEN [ok |-> TRUE, repo |-> unwrap(parts)]
       ELSE [ok |-> TRUE, repo |-> <<<<>>, repo>>]

\* Fetcher::new: Ok(the (owner, repo_name) pair) or Err for an identifier
\* without a '/'.
Fetcher_new(repo) ==
    LET parts == split_once(repo)
    IN IF is_some(parts) THEN [ok |-> TRUE, repo |-> unwrap(parts)]
       ELSE [ok |-> FALSE, repo |-> <<>>]

\* The closures handed to Fetcher::fetch. `failed` is what the remote fails:
\* TRUE/FALSE for a single call, the set of numbers whose call fails for a
\* per-number loop.
fetch_issues(repo, failed) ==
    IF failed THEN <<>> ELSE RemoteIssues(repo)

\* Mutant of fetch_issue_comments: the loop is left at the first failed call.
RECURSIVE fetch_issue_comments_stop_at_failure(_, _, _)
fetch_issue_comments_stop_at_failure(repo, issue_ids, failed) ==
    IF issue_ids = <<>> THEN <<>>
    ELSE IF Head(issue_ids) \in failed THEN <<>>
    ELSE RemoteIssueComments(repo, Head(issue_ids))
         \o fetch_issue_comments_stop_at_failure(repo, Tail(issue_ids), failed)

RECURSIVE fetch_issue_comments(_, _, _)
fetch_issue_comments(repo, issue_ids, failed) ==
    IF issue_ids = <<>> THEN <<>>
    ELSE (IF Head(issue_ids) \in failed THEN <<>>
          ELSE RemoteIssueComments(repo, Head(issue_ids)))
         \o fetch_issue_comments(repo, Tail(issue_ids), failed)

fetch_pull_request_comments(repo, failed) ==
    IF failed THEN <<>> ELSE RemotePullComments(repo)

RECURSIVE fetch_pull_request_reviews(_, _, _)
fetch_pull_request_reviews(repo, pull_request_ids, failed) ==
    IF pull_request_ids = <<>> THEN <<>>
    ELSE (IF Head(pull_request_ids) \in failed THEN <<>>
          ELSE RemoteReviews(repo, Head(pull_request_ids)))
         \o fetch_pull_request_reviews(repo, Tail(pull_request_ids), failed)

\* A fetch's channel and the task spawned for it: "idle" before the call,
\* "running" while the task awaits the remote, "sent" once the task has sent
\* its batch (and dropped the sender), "closed" when the task ended without
\* sending, "taken" once the receiver has taken the batch.
IdleChannel == [st |-> "idle", args |-> <<>>, val |-> <<>>]
\* Fetcher::fetch: make the channel, spawn the task, return the receiver.
fetch(args) == [st |-> "running", args |-> args, val |-> <<>>]
\* The spawned task's tx.send(batch).
task_send(ch, batch) == [ch EXCEPT !.st = "sent", !.val = batch]
\* The spawned task ends (it panicked) without sending.
task_abort(ch) == [ch EXCEPT !.st = "closed"]
\* rx.recv().await resolves once a value is there or every sender is gone.
\* Mutant of recv_ready: the await gives up on a fetch that is still in flight.
recv_ready_timeout(ch) == ch.st \in {"running", "sent", "closed", "taken"}

recv_ready(ch) == ch.st \in {"sent", "closed", "taken"}
recv(ch) == IF ch.st = "sent" THEN Some(ch.val) ELSE None
\* Mutant of after_recv: the batch stays in the channel after it was received.
after_recv_keep(ch) == ch

after_recv(ch) == IF ch.st = "sent" THEN [ch EXCEPT !.st = "taken", !.val = <<>>] ELSE ch

Kinds == {"issues", "issue_comments", "pull_request_comments", "pull_request_reviews"}
IdleChannels == [k \in Kinds |-> IdleChannel]

SeqToSet(s) == {s[k] : k \in 1..Len(s)}

---------------------------------------------------------------------------
(* main.rs: the repository worker (the task spawned per repository). *)

\* The task as spawned: fetcher and stats moved in, nothing fetched yet.
\* `folded` records which batches stats has had folded into it, `handed` how
\* many times the task has sent its stats; `stats` keeps the value after the
\* send has moved it into the channel.
Worker_new(fetcher) ==
    [pc |-> "start", repo |-> fetcher.repo,
     stats |-> Stats_new(ConfigUsers, ConfigLgtmComments, Window.start, Window.end),
     issues_and_prs |-> None, folded |-> {}, handed |-> 0]

\* Mutant of after_issues: a closed channel is taken as an empty batch and
\* the worker goes on.
after_issues_none_as_empty(w, got) ==
    LET batch == IF is_some(got) THEN unwrap(got) ELSE <<>>
    IN [w EXCEPT !.stats = traverse_issues(@, batch),
                 !.issues_and_prs = Some(batch),
                 !.folded = @ \cup {"issues"},
                 !.pc = "recv_issue_comments"]

\* match fetcher.fetch_issues().recv().await: Some folds the batch and goes
\* on, None warns and returns.
after_issues(w, got) ==
    IF is_some(got)
    THEN [w EXCEPT !.stats = traverse_issues(@, unwrap(got)),
                   !.issues_and_prs = got,
                   !.folded = @ \cup {"issues"},
                   !.pc = "recv_issue_comments"]
    ELSE [w EXCEPT !.pc = "finished"]

\* Mutant of after_issue_comments: a closed channel makes the worker return,
\* as it does for the issue fetch.
after_issue_comments_return_on_none(w, got) ==
    IF is_some(got)
    THEN [w EXCEPT !.stats = traverse_issue_comments(@, unwrap(got)),
                   !.folded = @ \cup {"issue_comments"},
                   !.pc = "recv_pull_request_comments"]
    ELSE [w EXCEPT !.pc = "finished"]

\* if let Some(issue_comments) = issue_comments_rx.recv().await { ... }
after_issue_comments(w, got) ==
    IF is_some(got)
    THEN [w EXCEPT !.stats = traverse_issue_comments(@, unwrap(got)),
                   !.folded = @ \cup {"issue_comments"},
                   !.pc = "recv_pull_request_comments"]
    ELSE [w EXCEPT !.pc = "recv_pull_request_comments"]

\* if let Some(pull_request_comments) = pull_request_comments_rx.recv().await
after_pull_request_comments(w, got) ==
    IF is_some(got)
    THEN [w EXCEPT !.stats = traverse_pull_request_comments(@, unwrap(got)),
                   !.folded = @ \cup {"pull_request_comments"},
                   !.pc = "recv_pull_request_reviews"]
    ELSE [w EXCEPT !.pc = "recv_pull_request_reviews"]

\* Mutant of after_pull_request_reviews: the send is skipped when the review
\* channel closed without a batch.
after_pull_request_reviews_no_send_on_none(w, got) ==
    IF is_some(got)
    THEN [w EXCEPT !.stats = traverse_pull_request_reviews(@, unwrap(got)),
                   !.folded = @ \cup {"pull_request_reviews"},
                   !.pc = "send"]
    ELSE [w EXCEPT !.pc = "finished"]

\* if let Some(pull_request_reviews) = pull_request_reviews_rx.recv().await,
\* after which the task sends its stats.
after_pull_request_reviews(w, got) ==
    IF is_some(got)
    THEN [w EXCEPT !.stats = traverse_pull_request_reviews(@, unwrap(got)),
                   !.folded = @ \cup {"pull_request_reviews"},
                   !.pc = "send"]
    ELSE [w EXCEPT !.pc = "send"]

\* The numbers handed to the issue-comment fetch and to the review fetch.
\* Mutant of issue_numbers: the pull-request marker is not looked at.
RECURSIVE issue_numbers_unfiltered(_)
issue_numbers_unfiltered(issues) ==
    IF issues = <<>> THEN <<>>
    ELSE <<Head(issues).number>> \o issue_numbers_unfiltered(Tail(issues))

RECURSIVE issue_numbers(_)
issue_numbers(issues) ==
    IF issues = <<>> THEN <<>>
    ELSE (IF ~Head(issues).pull_request THEN <<Head(issues).number>> ELSE <<>>)
         \o issue_numbers(Tail(issues))

RECURSIVE pull_request_numbers(_)
pull_request_numbers(issues) ==
    IF issues = <<>> THEN <<>>
    ELSE (IF Head(issues).pull_request THEN <<Head(issues).number>> ELSE <<>>)
         \o pull_request_numbers(Tail(issues))

\* Mutant of start_dependent_fetches: only the first of the three is started
\* before the worker turns to awaiting.
start_dependent_fetches_first_only(chs, issues_and_prs) ==
    [chs EXCEPT !.issue_comments = fetch(issue_numbers(issues_and_prs))]

\* The three fetches started once the issue batch is in.
start_dependent_fetches(chs, issues_and_prs) ==
    [chs EXCEPT !.issue_comments = fetch(issue_numbers(issues_and_prs)),
                !.pull_request_comments = fetch(<<>>),
                !.pull_request_reviews = fetch(pull_request_numbers(issues_and_prs))]

Running == pc \notin {"done", "exited"}

\* What a worker step leaves behind: a worker at "send" sends its stats (the
\* unbounded send never waits) and the task ends; a task that ends drops its
\* clone of the handoff sender.
Settle(r, w) ==
    LET sent == w.pc = "send"
        w2 == IF sent THEN [w EXCEPT !.pc = "finished", !.handed = @ + 1] ELSE w
    IN /\ worker' = [worker EXCEPT ![r] = w2]
       /\ rx' = IF sent THEN Append(rx, w.stats) ELSE rx
       /\ tx_count' = IF w2.pc = "finished" THEN tx_count - 1 ELSE tx_count

\* The task starts: fetcher.fetch_issues() and the first await.
WorkerStart(r) ==
    /\ Running
    /\ worker[r].pc = "start"
    /\ worker' = [worker EXCEPT ![r].pc = "recv_issues"]
    /\ chan' = [chan EXCEPT ![r].issues = fetch(<<>>)]
    /\ UNCHANGED <<repos, pc, idx, tx_count, rx, stats, harness_vars>>

WorkerRecvIssues(r) ==
    /\ Running
    /\ worker[r].pc = "recv_issues"
    /\ recv_ready(chan[r].issues)
    /\ LET w == after_issues(worker[r], recv(chan[r].issues))
           taken == [chan[r] EXCEPT !.issues = after_recv(@)]
       IN /\ Settle(r, w)
          /\ chan' = [chan EXCEPT ![r] =
                         IF w.pc = "finished" THEN taken
                         ELSE start_dependent_fetches(taken, unwrap(w.issues_and_prs))]
    /\ UNCHANGED <<repos, pc, idx, stats, harness_vars>>

WorkerRecvIssueComments(r) ==
    /\ Running
    /\ worker[r].pc = "recv_issue_comments"
    /\ recv_ready(chan[r].issue_comments)
    /\ Settle(r, after_issue_comments(worker[r], recv(chan[r].issue_comments)))
    /\ chan' = [chan EXCEPT ![r].issue_comments = after_recv(@)]
    /\ UNCHANGED <<repos, pc, idx, stats, harness_vars>>

WorkerRecvPullRequestComments(r) ==
    /\ Running
    /\ worker[r].pc = "recv_pull_request_comments"
    /\ recv_ready(chan[r].pull_request_comments)
    /\ Settle(r, after_pull_request_comments(worker[r],
                                             recv(chan[r].pull_request_comments)))
    /\ chan' = [chan EXCEPT ![r].pull_request_comments = after_recv(@)]
    /\ UNCHANGED <<repos, pc, idx, stats, harness_vars>>

WorkerRecvPullRequestReviews(r) ==
    /\ Running
    /\ worker[r].pc = "recv_pull_request_reviews"
    /\ recv_ready(chan[r].pull_request_reviews)
    /\ Settle(r, after_pull_request_reviews(worker[r],
                                            recv(chan[r].pull_request_reviews)))
    /\ chan' = [chan EXCEPT ![r].pull_request_reviews = after_recv(@)]
    /\ UNCHANGED <<repos, pc, idx, stats, harness_vars>>

---------------------------------------------------------------------------
(* fetcher.rs: the tasks Fetcher::fetch spawns. *)

FetchIssuesTask(r) ==
    /\ Running
    /\ chan[r].issues.st = "running"
    /\ \E failed \in BOOLEAN :
          chan' = [chan EXCEPT ![r].issues =
                      task_send(@, fetch_issues(worker[r].repo, failed))]
    /\ UNCHANGED <<repos, pc, idx, worker, tx_count, rx, stats, harness_vars>>

FetchIssueCommentsTask(r) ==
    /\ Running
    /\ chan[r].issue_comments.st = "running"
    /\ \E failed \in SUBSET SeqToSet(chan[r].issue_comments.args) :
          chan' = [chan EXCEPT ![r].issue_comments =
                      task_send(@, fetch_issue_comments(worker[r].repo, @.args, failed))]
    /\ UNCHANGED <<repos, pc, idx, worker, tx_count, rx, stats, harness_vars>>

FetchPullRequestCommentsTask(r) ==
    /\ Running
    /\ chan[r].pull_request_comments.st = "running"
    /\ \E failed \in BOOLEAN :
          chan' = [chan EXCEPT ![r].pull_request_comments =
                      task_send(@, fetch_pull_request_comments(worker[r].repo, failed))]
    /\ UNCHANGED <<repos, pc, idx, worker, tx_count, rx, stats, harness_vars>>

FetchPullRequestReviewsTask(r) ==
    /\ Running
    /\ chan[r].pull_request_reviews.st = "running"
    /\ \E failed \in SUBSET SeqToSet(chan[r].pull_request_reviews.args) :
          chan' = [chan EXCEPT ![r].pull_request_reviews =
                      task_send(@, fetch_pull_request_reviews(worker[r].repo, @.args, failed))]
    /\ UNCHANGED <<repos, pc, idx, worker, tx_count, rx, stats, harness_vars>>

\* A fetch task that panics inside the client drops its sender unsent.
FetchTaskAbort(r, k) ==
    /\ Running
    /\ chan[r][k].st = "running"
    /\ chan' = [chan EXCEPT ![r][k] = task_abort(@)]
    /\ UNCHANGED <<repos, pc, idx, worker, tx_count, rx, stats, harness_vars>>

---------------------------------------------------------------------------
(* main.rs: main. *)

\* One turn of `for repo in repos`: Fetcher::new, or process::exit(1).
MainSpawn ==
    /\ pc = "spawn"
    /\ idx <= Len(repos)
    /\ LET fetcher == Fetcher_new(repos[idx])
       IN IF fetcher.ok
          THEN /\ worker' = Append(worker, Worker_new(fetcher))
               /\ chan' = Append(chan, IdleChannels)
               /\ tx_count' = tx_count + 1
               /\ idx' = idx + 1
               /\ pc' = pc
          ELSE /\ pc' = "exited"
               /\ UNCHANGED <<worker, chan, tx_count, idx>>
    /\ UNCHANGED <<repos, rx, stats, harness_vars>>

MainSpawned ==
    /\ pc = "spawn"
    /\ idx > Len(repos)
    /\ pc' = "join"
    /\ idx' = 1
    /\ UNCHANGED <<repos, worker, chan, tx_count, rx, stats, harness_vars>>

\* Mutant of MainJoin: the task is not awaited, the loop just moves on.
MainJoin_no_wait ==
    /\ pc = "join"
    /\ idx <= Len(worker)
    /\ idx' = idx + 1
    /\ UNCHANGED <<repos, pc, worker, chan, tx_count, rx, stats, harness_vars>>

\* One turn of `for (repo, task) in tasks`: task.await.
MainJoin ==
    /\ pc = "join"
    /\ idx <= Len(worker)
    /\ worker[idx].pc = "finished"
    /\ idx' = idx + 1
    /\ UNCHANGED <<repos, pc, worker, chan, tx_count, rx, stats, harness_vars>>

\* Mutant of MainDropTx: main enters the drain loop still holding its sender.
MainDropTx_keeps_tx ==
    /\ pc = "join"
    /\ idx > Len(worker)
    /\ pc' = "drain"
    /\ UNCHANGED <<repos, idx, worker, chan, tx_count, rx, stats, harness_vars>>

\* drop(tx), and the drain loop is entered.
MainDropTx ==
    /\ pc = "join"
    /\ idx > Len(worker)
    /\ tx_count' = tx_count - 1
    /\ pc' = "drain"
    /\ UNCHANGED <<repos, idx, worker, chan, rx, stats, harness_vars>>

\* rx.recv().await yields Some(s): merge it, or take it as the first.
MainRecv ==
    /\ pc = "drain"
    /\ rx # <<>>
    /\ stats' = IF is_some(stats) THEN Some(merge(unwrap(stats), Head(rx)))
                ELSE Some(Head(rx))
    /\ rx' = Tail(rx)
    /\ UNCHANGED <<repos, pc, idx, worker, chan, tx_count, harness_vars>>

\* rx.recv().await yields None: break, and the result is reported.
MainReport ==
    /\ pc = "drain"
    /\ rx = <<>>
    /\ tx_count = 0
    /\ pc' = "done"
    /\ UNCHANGED <<repos, idx, worker, chan, tx_count, rx, stats, harness_vars>>

HarnessIdle == self = <<>> /\ arg = <<>> /\ op = "idle" /\ out = <<>>

Init ==
    /\ repos \in RepoConfigs
    /\ pc = "spawn"
    /\ idx = 1
    /\ worker = <<>>
    /\ chan = <<>>
    /\ tx_count = 1
    /\ rx = <<>>
    /\ stats = None
    /\ HarnessIdle

Next ==
    \/ MainSpawn
    \/ MainSpawned
    \/ MainJoin
    \/ MainDropTx
    \/ MainRecv
    \/ MainReport
    \/ \E r \in 1..Len(worker) :
          \/ WorkerStart(r)
          \/ WorkerRecvIssues(r)
          \/ WorkerRecvIssueComments(r)
          \/ WorkerRecvPullRequestComments(r)
          \/ WorkerRecvPullRequestReviews(r)
          \/ FetchIssuesTask(r)
          \/ FetchIssueCommentsTask(r)
          \/ FetchPullRequestCommentsTask(r)
          \/ FetchPullRequestReviewsTask(r)
          \/ \E k \in Kinds : FetchTaskAbort(r, k)

Spec == Init /\ [][Next]_vars

---------------------------------------------------------------------------
(* Claims about the pipeline, checked under Spec. *)

AllUsers == {"alice", "bob", "mallory", ""}
Workers == 1..Len(worker)
DependentKinds == Kinds \ {"issues"}

\* The sum, over the workers of `rs`, of what each handed off for (c, u).
RECURSIVE HandedSum(_, _, _)
HandedSum(rs, c, u) ==
    IF rs = {} THEN 0
    ELSE LET r == CHOOSE x \in rs : TRUE
         IN worker[r].handed * count_of(worker[r].stats[c], u)
            + HandedSum(rs \ {r}, c, u)

ReportCount(c, u) == IF is_some(stats) THEN count_of(unwrap(stats)[c], u) ELSE 0

\* C1: once every worker task has finished and the handoff channel is drained,
\* the final report's count of every (category, user) is the sum of that
\* user's counts over the Aggregates the workers handed off, each once,
\* whatever the order they arrived in.
C1_ReportIsSumOfHanded ==
    pc = "done" =>
        \A c \in Categories : \A u \in AllUsers :
            ReportCount(c, u) = HandedSum(Workers, c, u)

\* Two workers handed off issues[bob] = 2 and issues[bob] = 3, and the report
\* shows 5.
C1_Witness ==
    /\ pc = "done"
    /\ \E r1, r2 \in Workers :
          /\ worker[r1].handed = 1 /\ count_of(worker[r1].stats.issues, "bob") = 2
          /\ worker[r2].handed = 1 /\ count_of(worker[r2].stats.issues, "bob") = 3
    /\ ReportCount("issues", "bob") = 5

NoCounter(s) == \A c \in Categories : DOMAIN s[c] = {}

\* C2 as stated: a worker whose issue fetch yields an empty batch stops there:
\* none of the three dependent fetches is started and its Aggregate stays
\* empty.
C2_EmptyBatchTerminates ==
    \A r \in Workers :
        worker[r].issues_and_prs = Some(<<>>) =>
            /\ \A k \in DependentKinds : chan[r][k].st = "idle"
            /\ NoCounter(worker[r].stats)

\* C2 as amended: a worker whose issue channel closes without a batch stops
\* there, starts no dependent fetch and hands off nothing; a worker that
\* receives an empty batch goes on: the three dependent fetches are started
\* (the per-number ones with no numbers).
C2_NoBatchTerminates ==
    \A r \in Workers :
        /\ (worker[r].pc # "recv_issues" /\ chan[r].issues.st = "closed") =>
              /\ worker[r].pc = "finished"
              /\ \A k \in DependentKinds : chan[r][k].st = "idle"
              /\ worker[r].handed = 0
              /\ NoCounter(worker[r].stats)
        /\ worker[r].issues_and_prs = Some(<<>>) =>
              /\ \A k \in DependentKinds : chan[r][k].st # "idle"
              /\ chan[r].issue_comments.args = <<>>
              /\ chan[r].pull_request_reviews.args = <<>>

\* One worker stopped at a closed issue channel; another received an empty
\* batch, went on, and handed off an Aggregate that counts PR comments.
C2_Witness ==
    \E r1, r2 \in Workers :
        /\ worker[r1].pc = "finished" /\ chan[r1].issues.st = "closed"
        /\ worker[r2].issues_and_prs = Some(<<>>)
        /\ worker[r2].handed = 1
        /\ ~NoCounter(worker[r2].stats)

\* C3 as stated: every worker task that has ended has pushed exactly one
\* Aggregate.
C3_ExactlyOneOnEveryPath ==
    \A r \in Workers : worker[r].pc = "finished" => worker[r].handed = 1

\* C3 as amended: a worker pushes at most one Aggregate, and none before its
\* task ends; a task that has ended has pushed exactly one if its issue fetch
\* delivered a batch, and none if the issue channel closed without one.
C3_AtMostOne ==
    \A r \in Workers :
        /\ worker[r].handed <= 1
        /\ worker[r].pc # "finished" => worker[r].handed = 0
        /\ worker[r].pc = "finished" =>
              (worker[r].handed = 1 <=> is_some(worker[r].issues_and_prs))
        /\ worker[r].pc = "finished" =>
              (worker[r].handed = 0 <=> chan[r].issues.st = "closed")

\* Both paths taken: one task ended having pushed, one ended having pushed
\* nothing.
C3_Witness ==
    \E r1, r2 \in Workers :
        /\ worker[r1].pc = "finished" /\ worker[r1].handed = 1
        /\ worker[r2].pc = "finished" /\ worker[r2].handed = 0

\* C4 as stated: a handed-off Aggregate has had all four batches folded into
\* it, and a worker one of whose fetches delivered no batch hands off nothing.
C4_NoPartialAggregate ==
    \A r \in Workers :
        /\ worker[r].handed = 1 => worker[r].folded = Kinds
        /\ (worker[r].pc = "finished" /\ \E k \in Kinds : chan[r][k].st = "closed")
              => worker[r].handed = 0

\* C4 as amended: a handed-off Aggregate has had the issue batch folded into
\* it and exactly those dependent batches that were delivered; a worker whose
\* issue fetch delivers no batch hands off nothing, but a worker whose issue
\* batch arrived always hands off, a dependent fetch that delivers no batch
\* being skipped.
C4_FoldsWhatWasDelivered ==
    \A r \in Workers :
        /\ worker[r].handed = 1 =>
              /\ "issues" \in worker[r].folded
              /\ \A k \in DependentKinds :
                    /\ k \in worker[r].folded <=> chan[r][k].st = "taken"
                    /\ k \notin worker[r].folded <=> chan[r][k].st = "closed"
        /\ (worker[r].pc = "finished" /\ chan[r].issues.st = "closed")
              => worker[r].handed = 0
        /\ (worker[r].pc = "finished" /\ chan[r].issues.st = "taken")
              => worker[r].handed = 1

\* A partially folded Aggregate was handed off: the issue-comment channel
\* closed without a batch, yet the worker sent what it had.
C4_Witness ==
    \E r \in Workers :
        /\ worker[r].handed = 1
        /\ chan[r].issue_comments.st = "closed"
        /\ worker[r].folded = Kinds \ {"issue_comments"}
        /\ ~NoCounter(worker[r].stats)

WellFormed(repo) == \E k \in 1..Len(repo) : repo[k] = "/"
MalformedAt == {k \in 1..Len(repos) : ~WellFormed(repos[k])}

\* C5 as stated: with a malformed identifier configured, the run still ends
\* with the worker of every well-formed repository finished and the report
\* produced: it never ends any other way.
C5_OthersStillMerged ==
    (MalformedAt # {} /\ ~Running) =>
        /\ pc = "done"
        /\ \A k \in 1..Len(repos) :
              WellFormed(repos[k]) =>
                  \E r \in Workers : worker[r].repo = unwrap(split_once(repos[k]))
                                     /\ worker[r].pc = "finished"

\* C5 as amended: main exits the whole process when its loop reaches the
\* first malformed identifier: no worker is spawned for it or for a later
\* repository, nothing is ever merged and no report is produced; without a
\* malformed identifier main never exits this way.
C5_MalformedExitsProcess ==
    /\ MalformedAt = {} => pc # "exited"
    /\ MalformedAt # {} =>
          LET first == CHOOSE k \in MalformedAt : \A j \in MalformedAt : k <= j
          IN /\ pc \in {"spawn", "exited"}
             /\ Len(worker) < first
             /\ stats = None
             /\ pc = "exited" => (idx = first /\ Len(worker) = first - 1)

\* main has exited at the malformed identifier while the worker spawned
\* before it had already handed off an Aggregate, which is never merged.
C5_Witness ==
    /\ pc = "exited"
    /\ rx # <<>>
    /\ stats = None

---------------------------------------------------------------------------
(* Stats on its own: the operations of stats.rs applied to drawn inputs.   *)
(* main is not running (pc = "harness"); self is the Stats, arg what the   *)
(* operation is given, out what it leaves.                                 *)

PipelineIdle ==
    /\ repos = <<>> /\ pc = "harness" /\ idx = 1 /\ worker = <<>> /\ chan = <<>>
    /\ tx_count = 1 /\ rx = <<>> /\ stats = None

MergeUsers == {"alice", "bob"}
\* Every counter map over MergeUsers with counts up to MaxCount (an entry is
\* made by an increment, so it is at least 1).
CountMaps == UNION {[us -> 1..MaxCount] : us \in SUBSET MergeUsers}

PolicyA == [allowed_users |-> {"alice"}, lgtm_comments |-> <<Str_LGTM>>,
            start_time |-> Window.start, end_time |-> Window.end]
PolicyB == [allowed_users |-> {"bob", "mallory"}, lgtm_comments |-> <<>>,
            start_time |-> 2, end_time |-> 2]

\* A Stats with the given maps: m1 in issues, issue_comments and lgtms, m2 in
\* prs, pr_reviews and labels.
StatsOf(m1, m2, policy) ==
    [issues |-> m1, prs |-> m2, issue_comments |-> m1,
     pr_reviews |-> m2, lgtms |-> m1, labels |-> m2,
     allowed_users |-> policy.allowed_users, lgtm_comments |-> policy.lgtm_comments,
     start_time |-> policy.start_time, end_time |-> policy.end_time]

InitMerge ==
    /\ PipelineIdle
    /\ self \in {StatsOf(m1, m2, PolicyA) : m1 \in CountMaps, m2 \in CountMaps}
    /\ arg \in {<<StatsOf(m, m, pb), StatsOf(n, EmptyMap, PolicyB)>> :
                   m \in CountMaps, n \in CountMaps, pb \in {PolicyA, PolicyB}}
    /\ op = "new"
    /\ out = <<>>

\* self.merge(other), in both orders and both groupings, for A = self and
\* B, C = arg.
HarnessMerge ==
    /\ op = "new"
    /\ pc = "harness"
    /\ Len(arg) = 2
    /\ op' = "merge"
    /\ out' = [ab |-> merge(self, arg[1]),
               ba |-> merge(arg[1], self),
               ab_c |-> merge(merge(self, arg[1]), arg[2]),
               a_bc |-> merge(self, merge(arg[1], arg[2]))]
    /\ UNCHANGED <<self, arg, pipeline_vars>>

\* self.merge(Stats::new(..)): an Aggregate with six empty maps merged in.
HarnessMergeEmpty ==
    /\ op = "new"
    /\ pc = "harness"
    /\ Len(arg) = 2
    /\ op' = "merge_empty"
    /\ out' = merge(self, Stats_new(arg[1].allowed_users, arg[1].lgtm_comments,
                                    arg[1].start_time, arg[1].end_time))
    /\ UNCHANGED <<self, arg, pipeline_vars>>

NextMerge == HarnessMerge \/ HarnessMergeEmpty

SpecMerge == InitMerge /\ [][NextMerge]_vars

\* C6: merge is commutative and associative on the six counter maps, whatever
\* the filter policies of the Aggregates.
C6_MergeCommutesAndAssociates ==
    op = "merge" =>
        /\ counter_maps(out.ab) = counter_maps(out.ba)
        /\ counter_maps(out.ab_c) = counter_maps(out.a_bc)

\* Three Aggregates with different policies, overlapping users and different
\* counts were merged.
C6_Witness ==
    /\ op = "merge"
    /\ self.allowed_users # arg[1].allowed_users
    /\ count_of(self.issues, "alice") = 1
    /\ count_of(arg[1].issues, "alice") = 1
    /\ "bob" \in DOMAIN arg[2].issues
    /\ "bob" \notin DOMAIN self.issues
    /\ count_of(out.ab_c.issues, "alice") = 2

\* C7: merging an Aggregate whose six maps are empty leaves the six maps of
\* self as they were: no entry added, removed or altered.
C7_MergeEmptyIsIdentity ==
    op = "merge_empty" =>
        \A c \in Categories :
            /\ DOMAIN out[c] = DOMAIN self[c]
            /\ \A u \in DOMAIN self[c] : out[c][u] = self[c][u]

\* An Aggregate with entries in some maps and none in others had an empty
\* one merged in.
C7_Witness ==
    /\ op = "merge_empty"
    /\ DOMAIN self.issues = {"alice", "bob"}
    /\ self.issues["alice"] = 2
    /\ self.issues["bob"] = 1
    /\ self.prs = EmptyMap
    /\ out.issues = self.issues

---------------------------------------------------------------------------
(* The four traversals applied to one drawn record each. *)

Chars == {" ", "L", "l"}
RECURSIVE SeqsUpTo(_, _)
SeqsUpTo(S, n) ==
    IF n = 0 THEN {<<>>}
    ELSE LET shorter == SeqsUpTo(S, n - 1)
         IN shorter \cup {Append(b, ch) : b \in shorter, ch \in S}
Bodies == SeqsUpTo(Chars, MaxBodyLen)

\* The lists review.lgtm_comments may hold: none, one marker, two markers
\* (one with a trailing blank), the empty marker.
LgtmLists == {<<>>, <<<<"L", "l">>>>, <<<<"l", "L">>, <<"L", " ">>>>, <<<<>>>>}

TestUsers == {"alice", "mallory"}
OptionOf(S) == {None} \cup {Some(x) : x \in S}
ReviewStates == {"Approved", "Commented", "ChangesRequested", "Dismissed", "Pending"}

IssueRecords ==
    {Issue(1, u, t, p) : u \in TestUsers, t \in Times, p \in BOOLEAN}
IssueCommentRecords ==
    {IssueComment(u, t, t2, b) :
        u \in TestUsers, t \in Times, t2 \in OptionOf(Times), b \in {<<>>, <<"L", "l">>}}
PullCommentRecords ==
    {PullComment(u, t, t2, b) :
        u \in OptionOf(TestUsers), t \in Times, t2 \in Times, b \in Bodies}
ReviewRecords ==
    {Review(u, t, st) :
        u \in OptionOf(TestUsers), t \in OptionOf(Times), st \in OptionOf(ReviewStates)}

\* A Stats as a worker may hold it: fresh, or with alice counted once in the
\* five populated categories.
Counted(s) ==
    add_lgtm(add_pr_review(add_issue_comment(add_pr(add_issue(s, "alice"), "alice"),
                                             "alice"), "alice"), "alice")

InitStats ==
    /\ PipelineIdle
    /\ \E lg \in LgtmLists, w \in {Window, [start |-> 2, end |-> 2]}, pre \in BOOLEAN :
          LET fresh == Stats_new({"alice"}, lg, w.start, w.end)
          IN self = IF pre THEN Counted(fresh) ELSE fresh
    /\ arg = <<>>
    /\ op = "new"
    /\ out = <<>>

HarnessTraverseIssues ==
    /\ op = "new"
    /\ pc = "harness"
    /\ arg = <<>>
    /\ \E issue \in IssueRecords :
          /\ arg' = <<issue>>
          /\ out' = traverse_issues(self, <<issue>>)
    /\ op' = "traverse_issues"
    /\ UNCHANGED <<self, pipeline_vars>>

HarnessTraverseIssueComments ==
    /\ op = "new"
    /\ pc = "harness"
    /\ arg = <<>>
    /\ \E comment \in IssueCommentRecords :
          /\ arg' = <<comment>>
          /\ out' = traverse_issue_comments(self, <<comment>>)
    /\ op' = "traverse_issue_comments"
    /\ UNCHANGED <<self, pipeline_vars>>

HarnessTraversePullRequestComments ==
    /\ op = "new"
    /\ pc = "harness"
    /\ arg = <<>>
    /\ \E comment \in PullCommentRecords :
          /\ arg' = <<comment>>
          /\ out' = traverse_pull_request_comments(self, <<comment>>)
    /\ op' = "traverse_pull_request_comments"
    /\ UNCHANGED <<self, pipeline_vars>>

HarnessTraversePullRequestReviews ==
    /\ op = "new"
    /\ pc = "harness"
    /\ arg = <<>>
    /\ \E review \in ReviewRecords :
          /\ arg' = <<review>>
          /\ out' = traverse_pull_request_reviews(self, <<review>>)
    /\ op' = "traverse_pull_request_reviews"
    /\ UNCHANGED <<self, pipeline_vars>>

\* traverse_issues on a batch of MaxBatch drawn records.
HarnessTraverseIssueBatch ==
    /\ op = "new"
    /\ pc = "harness"
    /\ arg = <<>>
    /\ \E issues \in [1..MaxBatch -> IssueRecords] :
          /\ arg' = issues
          /\ out' = traverse_issues(self, issues)
    /\ op' = "traverse_issue_batch"
    /\ UNCHANGED <<self, pipeline_vars>>

NextStats ==
    \/ HarnessTraverseIssues
    \/ HarnessTraverseIssueComments
    \/ HarnessTraversePullRequestComments
    \/ HarnessTraversePullRequestReviews
    \/ HarnessTraverseIssueBatch

SpecStats == InitStats /\ [][NextStats]_vars

\* start <= t <= end, written out for the Stats under test.
InWindow(t) == self.start_time <= t /\ t <= self.end_time
\* The traversal changed some counter map.
CountedIt == counter_maps(out) # counter_maps(self)
\* out is self with (category c, user u) one higher and nothing else changed
\* (c = "" for no change at all).
OnlyIncrement(c, u) ==
    \A cat \in Categories : \A usr \in AllUsers \cup DOMAIN out[cat] \cup DOMAIN self[cat] :
        count_of(out[cat], usr) =
            count_of(self[cat], usr) + (IF cat = c /\ usr = u THEN 1 ELSE 0)

\* C9: for every record class a timestamp qualifies iff start <= t <= end; a
\* record by an allowed user (a review: an approved one) is counted iff one of
\* the timestamps its class looks at lies in the closed window, so one exactly
\* at start or at end is counted and one a microsecond outside is not.
C9_WindowIsClosed ==
    /\ op # "idle" =>
          \A t \in Times : within_time_range(self, t) <=> InWindow(t)
    /\ (op = "traverse_issues" /\ arg[1].user \in self.allowed_users) =>
          (CountedIt <=> InWindow(arg[1].created_at))
    /\ (op = "traverse_issue_comments" /\ arg[1].user \in self.allowed_users) =>
          (CountedIt <=> (InWindow(arg[1].created_at)
                          \/ (arg[1].updated_at # None /\ InWindow(arg[1].updated_at[1]))))
    /\ (op = "traverse_pull_request_comments" /\ arg[1].user # None
        /\ arg[1].user[1] \in self.allowed_users) =>
          (CountedIt <=> (InWindow(arg[1].created_at) \/ InWindow(arg[1].updated_at)))
    /\ (op = "traverse_pull_request_reviews" /\ arg[1].user # None
        /\ arg[1].user[1] \in self.allowed_users /\ arg[1].state = Some("Approved")) =>
          (CountedIt <=> (arg[1].submitted_at # None /\ InWindow(arg[1].submitted_at[1])))

\* A PR comment by alice created one microsecond before start and updated
\* exactly at end was counted.
C9_Witness ==
    /\ op = "traverse_pull_request_comments"
    /\ arg[1].user = Some("alice")
    /\ self.start_time < self.end_time
    /\ arg[1].created_at = self.start_time - 1
    /\ arg[1].updated_at = self.end_time
    /\ CountedIt

\* The trimmed body: from the first to the last non-blank character.
Trimmed(body) ==
    LET ink == {k \in 1..Len(body) : body[k] # " "}
    IN IF ink = {} THEN <<>>
       ELSE SubSeq(body, CHOOSE k \in ink : \A j \in ink : k <= j,
                         CHOOSE k \in ink : \A j \in ink : j <= k)
\* needle occurs in hay: hay = before \o needle \o after.
Occurs(needle, hay) ==
    \E a \in 0..Len(hay) : \E b \in a..Len(hay) :
        /\ b - a = Len(needle)
        /\ \A k \in 1..Len(needle) : hay[a + k] = needle[k]
HasLgtmMarker(body) ==
    \E k \in 1..Len(self.lgtm_comments) : Occurs(self.lgtm_comments[k], Trimmed(body))

\* C10: a PR line comment that passes the filter (author allowed, created or
\* updated in the window) raises exactly one of lgtms[author] and
\* pr_review_comments[author], by exactly 1: lgtms iff its trimmed body
\* contains a configured marker (case-sensitive), pr_review_comments
\* otherwise; one that does not pass changes nothing.
C10_LgtmPrecedence ==
    op = "traverse_pull_request_comments" =>
        LET c == arg[1]
            author == IF c.user = None THEN "" ELSE c.user[1]
            passes == author \in self.allowed_users
                      /\ (InWindow(c.created_at) \/ InWindow(c.updated_at))
        IN IF ~passes THEN OnlyIncrement("", "")
           ELSE IF HasLgtmMarker(c.body) THEN OnlyIncrement("lgtms", author)
           ELSE OnlyIncrement("pr_reviews", author)

\* A comment whose body holds a marker between blanks went to lgtms, on top
\* of a count already there, and left pr_reviews alone.
C10_Witness ==
    /\ op = "traverse_pull_request_comments"
    /\ arg[1].body = <<" ", "L", "l">>
    /\ self.lgtm_comments = <<<<"L", "l">>>>
    /\ count_of(self.lgtms, "alice") = 1
    /\ count_of(out.lgtms, "alice") = 2
    /\ out.pr_reviews = self.pr_reviews

\* C11: a pull-request review raises lgtms[author] by exactly 1 iff its author
\* is allow-listed, its submission time is present and inside [start, end],
\* and its state is Approved; with any other state, no state, no submission
\* time or a submission time outside the window no counter changes.
C11_ReviewStateGating ==
    op = "traverse_pull_request_reviews" =>
        LET review == arg[1]
            author == IF review.user = None THEN "" ELSE review.user[1]
            counts == /\ author \in self.allowed_users
                      /\ review.submitted_at # None
                      /\ InWindow(review.submitted_at[1])
                      /\ review.state = Some("Approved")
        IN IF counts THEN OnlyIncrement("lgtms", author)
           ELSE OnlyIncrement("", "")

\* An approved review by alice submitted exactly at end took her lgtms from 1
\* to 2.
C11_Witness ==
    /\ op = "traverse_pull_request_reviews"
    /\ arg[1] = Review(Some("alice"), Some(self.end_time), Some("Approved"))
    /\ count_of(self.lgtms, "alice") = 1
    /\ count_of(out.lgtms, "alice") = 2

\* The records of the traversed issue batch that raise (category c, user u).
IssueHits(c, u) ==
    {k \in 1..Len(arg) :
        /\ arg[k].user = u
        /\ u \in self.allowed_users
        /\ InWindow(arg[k].created_at)
        /\ c = IF arg[k].pull_request THEN "prs" ELSE "issues"}

\* C12: every record of an issue batch whose author is allow-listed and whose
\* creation time is in the window raises exactly one counter by 1,
\* prs[author] if it carries the pull-request marker and issues[author] if
\* not; every other record raises none; and the traversal leaves
\* issue_comments, pr_reviews, lgtms and labels as they were.
C12_IssueClassification ==
    op \in {"traverse_issues", "traverse_issue_batch"} =>
        /\ \A c \in Categories :
           \A u \in AllUsers \cup DOMAIN out[c] \cup DOMAIN self[c] :
              count_of(out[c], u) = count_of(self[c], u) + Cardinality(IssueHits(c, u))
        /\ \A c \in Categories \ {"issues", "prs"} : out[c] = self[c]

\* A batch of a plain issue and a pull request, both by alice and in the
\* window, followed by nothing else: issues and prs went up by one each.
C12_Witness ==
    /\ op = "traverse_issue_batch"
    /\ Len(arg) >= 2
    /\ arg[1].user = "alice" /\ ~arg[1].pull_request /\ InWindow(arg[1].created_at)
    /\ arg[2].user = "alice" /\ arg[2].pull_request /\ InWindow(arg[2].created_at)
    /\ \A k \in 3..Len(arg) : arg[k].user = "mallory"
    /\ count_of(out.issues, "alice") = count_of(self.issues, "alice") + 1
    /\ count_of(out.prs, "alice") = count_of(self.prs, "alice") + 1
    /\ out.lgtms = self.lgtms

\* C13: an issue comment is counted iff its author is allow-listed and its
\* creation time is in the window or its last-update time is present and in
\* the window; a counted one raises issue_comments[author] by exactly 1 and
\* neither lgtms nor pr_reviews, also when its body contains a marker.
C13_IssueCommentFilter ==
    op = "traverse_issue_comments" =>
        LET comment == arg[1]
            counts == /\ comment.user \in self.allowed_users
                      /\ \/ InWindow(comment.created_at)
                         \/ /\ comment.updated_at # None
                            /\ InWindow(comment.updated_at[1])
        IN IF counts THEN OnlyIncrement("issue_comments", comment.user)
           ELSE OnlyIncrement("", "")

\* An issue comment by alice whose body is a configured marker, created
\* before the window and updated inside it, went to issue_comments only.
C13_Witness ==
    /\ op = "traverse_issue_comments"
    /\ arg[1].user = "alice"
    /\ arg[1].body = <<"L", "l">>
    /\ self.lgtm_comments = <<<<"L", "l">>>>
    /\ arg[1].created_at < self.start_time
    /\ arg[1].updated_at = Some(self.start_time)
    /\ count_of(out.issue_comments, "alice") = count_of(self.issue_comments, "alice") + 1
    /\ out.lgtms = self.lgtms
    /\ out.pr_reviews = self.pr_reviews

---------------------------------------------------------------------------
(* The two per-number fetches applied to a drawn list of numbers, the      *)
(* remote failing the calls of a drawn subset of them.                     *)

\* Numbers with and without records behind them.
FetchNumbers == {1, 2, 3, 11}

InitFetch ==
    /\ PipelineIdle
    /\ \E repo \in {RepoA, RepoB} : self = Fetcher_new(repo).repo
    /\ \E ids \in SeqsUpTo(FetchNumbers, MaxIds) : \E failed \in SUBSET SeqToSet(ids) :
          arg = [ids |-> ids, failed |-> failed]
    /\ op = "fetcher"
    /\ out = <<>>

HarnessFetchIssueComments ==
    /\ op = "fetcher"
    /\ pc = "harness"
    /\ out' = task_send(fetch(arg.ids), fetch_issue_comments(self, arg.ids, arg.failed))
    /\ op' = "fetch_issue_comments"
    /\ UNCHANGED <<self, arg, pipeline_vars>>

HarnessFetchPullRequestReviews ==
    /\ op = "fetcher"
    /\ pc = "harness"
    /\ out' = task_send(fetch(arg.ids), fetch_pull_request_reviews(self, arg.ids, arg.failed))
    /\ op' = "fetch_pull_request_reviews"
    /\ UNCHANGED <<self, arg, pipeline_vars>>

NextFetch ==
    \/ HarnessFetchIssueComments
    \/ HarnessFetchPullRequestReviews

SpecFetch == InitFetch /\ [][NextFetch]_vars

\* What the k-th number of the list contributes: its records if its call
\* succeeded, nothing if it failed.
Piece(k) ==
    IF arg.ids[k] \in arg.failed THEN <<>>
    ELSE IF op = "fetch_issue_comments" THEN RemoteIssueComments(self, arg.ids[k])
    ELSE RemoteReviews(self, arg.ids[k])
\* The number of records contributed by the numbers before the k-th.
RECURSIVE Offset(_)
Offset(k) == IF k <= 1 THEN 0 ELSE Offset(k - 1) + Len(Piece(k - 1))

\* C14: fetch_issue_comments and fetch_pull_request_reviews, whatever subset
\* of the numbers the remote call fails for, deliver one batch, and it holds
\* exactly the records of the numbers whose call succeeded, number after
\* number in the order given (nothing at all when every call fails): the
\* records of the k-th number sit right after those of the numbers before it.
C14_PerItemFailureTolerance ==
    op \in {"fetch_issue_comments", "fetch_pull_request_reviews"} =>
        /\ out.st = "sent"
        /\ recv(out) # None
        /\ Len(out.val) = Offset(Len(arg.ids) + 1)
        /\ \A k \in 1..Len(arg.ids) : \A i \in 1..Len(Piece(k)) :
              out.val[Offset(k) + i] = Piece(k)[i]

\* The call for the middle one of three pull requests failed; the batch
\* holds the reviews of the first and of the third.
C14_Witness ==
    /\ op = "fetch_pull_request_reviews"
    /\ arg.ids = <<3, 2, 11>>
    /\ arg.failed = {2}
    /\ out.val = RemoteReviews(self, 3) \o RemoteReviews(self, 11)

---------------------------------------------------------------------------
(* The pipeline and the single traversals side by side: a run is either a  *)
(* run of main or one traversal of a drawn record.                         *)

SpecPipelineAndStats == (Init \/ InitStats) /\ [][Next \/ NextStats]_vars

\* The author a record is filtered by (an absent author is "").
AuthorOf(record) ==
    IF op \in {"traverse_issues", "traverse_issue_comments"} THEN record.user
    ELSE IF record.user = None THEN ""
    ELSE record.user[1]

KeysAllowed(s) == \A c \in Categories : DOMAIN s[c] \subseteq s.allowed_users

\* C8: a record of any class whose author is not in the allow-list leaves the
\* six counter maps as they were, whatever its timestamps, body or review
\* state; and in every state of the pipeline every user name in a counter map
\* of a worker's Aggregate, of an Aggregate in the handoff channel and of the
\* final report is in the allow-list.
C8_AllowListExclusive ==
    /\ (op \in {"traverse_issues", "traverse_issue_comments",
                "traverse_pull_request_comments", "traverse_pull_request_reviews"}
        /\ AuthorOf(arg[1]) \notin self.allowed_users) =>
          counter_maps(out) = counter_maps(self)
    /\ op \notin {"idle", "new"} => KeysAllowed(out)
    /\ \A r \in Workers : KeysAllowed(worker[r].stats)
    /\ \A k \in 1..Len(rx) : KeysAllowed(rx[k])
    /\ is_some(stats) => KeysAllowed(unwrap(stats))

\* A run of main ended with a report that has counts, one worker having
\* folded an issue batch that holds a PR by mallory created inside the window.
C8_Witness ==
    /\ pc = "done"
    /\ is_some(stats)
    /\ unwrap(stats).prs # EmptyMap
    /\ \E r \in Workers :
          /\ worker[r].folded = Kinds
          /\ \E k \in 1..Len(unwrap(worker[r].issues_and_prs)) :
                LET issue == unwrap(worker[r].issues_and_prs)[k]
                IN /\ issue.user = "mallory"
                   /\ issue.pull_request
                   /\ Window.start <= issue.created_at
                   /\ issue.created_at <= Window.end

\* Every entry of the six maps of s is at least 1.
EntriesPositive(s) == \A c \in Categories : \A u \in DOMAIN s[c] : s[c][u] >= 1
\* Every entry of a is an entry of b with a count at least as high.
NoLower(a, b) ==
    \A c \in Categories :
        /\ DOMAIN a[c] \subseteq DOMAIN b[c]
        /\ \A u \in DOMAIN a[c] : a[c][u] <= b[c][u]
IsTraversal ==
    op \in {"traverse_issues", "traverse_issue_batch", "traverse_issue_comments",
            "traverse_pull_request_comments", "traverse_pull_request_reviews"}

\* C15: in every state every entry of the six maps of every Aggregate (a
\* worker's, one in the handoff channel, the final report, the result of a
\* single traversal) has a count of at least 1; and no step lowers a count or
\* removes an entry of a worker's Aggregate or of the report, nor does a
\* traversal with respect to the Aggregate it started from.
C15_CountsPositiveAndMonotone ==
    /\ [](/\ \A r \in Workers : EntriesPositive(worker[r].stats)
          /\ \A k \in 1..Len(rx) : EntriesPositive(rx[k])
          /\ is_some(stats) => EntriesPositive(unwrap(stats))
          /\ IsTraversal => (EntriesPositive(out) /\ NoLower(self, out)))
    /\ [][/\ \A r \in Workers : NoLower(worker[r].stats, worker'[r].stats)
          /\ is_some(stats) =>
                (is_some(stats') /\ NoLower(unwrap(stats), unwrap(stats')))]_vars

\* The report holds the sum of two workers' counts for bob's issues, more
\* than either had.
C15_Witness ==
    /\ is_some(stats)
    /\ Len(worker) = 2
    /\ \A r \in Workers :
          /\ worker[r].handed = 1
          /\ count_of(worker[r].stats.issues, "bob") >= 1
          /\ count_of(unwrap(stats).issues, "bob") > count_of(worker[r].stats.issues, "bob")

\* Every spawned worker task has ended.
AllWorkersFinished == \A r \in Workers : worker[r].pc = "finished"
\* What the workers have sent and main has not yet received.
RECURSIVE HandedCount(_)
HandedCount(rs) ==
    IF rs = {} THEN 0
    ELSE LET r == CHOOSE x \in rs : TRUE
         IN worker[r].handed + HandedCount(rs \ {r})

\* C16: main takes nothing from the handoff channel and merges nothing
\* before every spawned worker task has ended: while it spawns or joins,
\* every Aggregate handed off is still in the channel and there is no
\* report; once it drains or has reported, no worker task is running.
C16_DrainAfterJoin ==
    /\ pc \in {"spawn", "join", "exited"} =>
          (stats = None /\ Len(rx) = HandedCount(Workers))
    /\ (pc \in {"drain", "done"} \/ is_some(stats)) =>
          (AllWorkersFinished /\ Len(worker) = Len(repos))

\* Main has taken one Aggregate and is about to merge the second; both
\* workers have ended.
C16_Witness ==
    /\ pc = "drain"
    /\ is_some(stats)
    /\ rx # <<>>
    /\ Len(worker) = 2
    /\ AllWorkersFinished

\* The dependent fetches of worker r that have been started.
Started(r) == {k \in DependentKinds : chan[r][k].st # "idle"}

\* C17: in every worker none of the three dependent fetches is started
\* before the issue batch has been received and folded, and once the worker
\* awaits the first of them all three have been started (none is started
\* without the other two), so the three can be in flight at the same time.
C17_DependentFetchesStartTogether ==
    \A r \in Workers :
        /\ Started(r) # {} =>
              /\ chan[r].issues.st = "taken"
              /\ "issues" \in worker[r].folded
              /\ is_some(worker[r].issues_and_prs)
        /\ Started(r) \in {{}, DependentKinds}
        /\ worker[r].pc \in {"start", "recv_issues"} => Started(r) = {}
        /\ worker[r].pc \in {"recv_issue_comments", "recv_pull_request_comments",
                             "recv_pull_request_reviews"} => Started(r) = DependentKinds

\* A worker awaits the issue comments while all three dependent fetches are
\* still in flight.
C17_Witness ==
    \E r \in Workers :
        /\ worker[r].pc = "recv_issue_comments"
        /\ \A k \in DependentKinds : chan[r][k].st = "running"

\* The awaits of a worker in program order, and the await a worker at pc is
\* at (0 before the first, 5 past the last).
AwaitOrder(k) ==
    CASE k = "issues" -> 1
      [] k = "issue_comments" -> 2
      [] k = "pull_request_comments" -> 3
      [] k = "pull_request_reviews" -> 4
AwaitAt(p) ==
    CASE p = "start" -> 0
      [] p = "recv_issues" -> 1
      [] p = "recv_issue_comments" -> 2
      [] p = "recv_pull_request_comments" -> 3
      [] p = "recv_pull_request_reviews" -> 4
      [] OTHER -> 5

\* C18 as stated: every fetch whose channel has closed carried exactly one
\* batch.
C18_ExactlyOneBatch ==
    \A r \in Workers : \A k \in Kinds :
        chan[r][k].st \notin {"idle", "running"} => chan[r][k].st \in {"sent", "taken"}

\* C18, amended: the channel of each of the four fetches carries at most one
\* batch: the call returns with the task in flight and the channel empty;
\* the task either sends one batch and ends, or ends without one; a batch in
\* the channel stays as it is until the worker takes it; after the worker
\* has awaited the channel, a further receive yields nothing, and nothing is
\* ever sent again.
C18_AtMostOneBatch ==
    /\ [](\A r \in Workers : \A k \in Kinds :
            LET ch == chan[r][k]
            IN /\ ch.st \in {"idle", "running", "closed", "taken"} =>
                     (ch.val = <<>> /\ recv(ch) = None)
               /\ ch.st = "sent" => recv(ch) = Some(ch.val)
               /\ (AwaitAt(worker[r].pc) > AwaitOrder(k) /\ ch.st # "idle") =>
                     (ch.st \in {"taken", "closed"} /\ recv_ready(ch)))
    /\ [][\A r \in Workers : \A k \in Kinds :
            LET a == chan[r][k]
                b == chan'[r][k]
            IN /\ a.st = "idle" => b.st \in {"idle", "running"}
               /\ a.st = "running" => b.st \in {"running", "sent", "closed"}
               /\ a.st = "sent" => (b = a \/ b.st = "taken")
               /\ a.st = "taken" => b.st = "taken"
               /\ a.st = "closed" => b.st = "closed"
               /\ (a.st = "sent" /\ b.st = "taken") =>
                     (AwaitAt(worker[r].pc) = AwaitOrder(k)
                      /\ k \in worker'[r].folded)]_vars

\* A worker has taken the one batch of its issue fetch and is past an
\* issue-comment fetch that ended without sending; both channels stay empty.
C18_Witness ==
    \E r \in Workers :
        /\ chan[r].issues.st = "taken"
        /\ chan[r].issue_comments.st = "closed"
        /\ chan[r].pull_request_comments.st = "sent"
        /\ worker[r].pc = "recv_pull_request_comments"
        /\ worker[r].folded = {"issues"}

\* Worker r has a fetch that was started and has not completed.
FetchInFlight(r) == \E k \in Kinds : chan[r][k].st = "running"

\* C19: as long as a fetch of a worker has not completed, that worker has
\* neither handed off an Aggregate nor ended, and main has neither begun to
\* drain the handoff channel nor reported, whatever the other workers have
\* done; no step is taken on behalf of a fetch in flight other than its own
\* completion, so a fetch that never completes holds both back for ever.
C19_NoTimeout ==
    \A r \in Workers :
        FetchInFlight(r) =>
            /\ worker[r].handed = 0
            /\ worker[r].pc \notin {"send", "finished"}
            /\ (\A k \in Kinds : chan[r][k].st = "running" =>
                   AwaitAt(worker[r].pc) <= AwaitOrder(k))
            /\ pc \notin {"drain", "done"}
            /\ stats = None

\* The first worker has handed off and ended; main is held in the join loop
\* by the second, whose review fetch is the only thing still in flight.
C19_Witness ==
    /\ Len(worker) = 2
    /\ worker[1].pc = "finished" /\ worker[1].handed = 1
    /\ worker[2].pc = "recv_pull_request_reviews"
    /\ chan[2].pull_request_reviews.st = "running"
    /\ pc = "join" /\ idx = 2
    /\ Len(rx) = 1
    /\ stats = None

---------------------------------------------------------------------------
(* The three dependent folds of a worker applied to drawn batches, in the  *)
(* order main.rs has them and in the five other orders.                    *)

FoldIssueComments ==
    {IssueComment("alice", 2, None, <<"L", "l">>), IssueComment("mallory", 2, None, <<>>)}
FoldPullComments ==
    {PullComment(Some("alice"), 2, 2, <<"L", "l">>),
     PullComment(Some("alice"), 2, 2, <<"l">>),
     PullComment(Some("alice"), 0, 0, <<"L", "l">>)}
FoldReviews ==
    {Review(Some("alice"), Some(2), Some("Approved")),
     Review(Some("alice"), Some(2), Some("Commented")),
     Review(Some("alice"), None, Some("Approved"))}

\* if let Some(batch) = X_rx.recv().await { stats.traverse_X(batch) }
fold_batch(s, k, batches) ==
    CASE k = "issue_comments" -> traverse_issue_comments(s, batches[k])
      [] k = "pull_request_comments" -> traverse_pull_request_comments(s, batches[k])
      [] k = "pull_request_reviews" -> traverse_pull_request_reviews(s, batches[k])

RECURSIVE fold_in_order(_, _, _)
fold_in_order(s, order, batches) ==
    IF order = <<>> THEN s
    ELSE fold_in_order(fold_batch(s, Head(order), batches), Tail(order), batches)

\* The order of the three awaits in the worker task.
WorkerOrder == <<"issue_comments", "pull_request_comments", "pull_request_reviews">>
Orders == {o \in [1..3 -> {"issue_comments", "pull_request_comments", "pull_request_reviews"}] :
              \A i, j \in 1..3 : o[i] = o[j] => i = j}

InitFold ==
    /\ PipelineIdle
    /\ \E pre \in BOOLEAN :
          LET fresh == Stats_new({"alice"}, <<<<"L", "l">>>>, Window.start, Window.end)
          IN self = IF pre THEN Counted(fresh) ELSE fresh
    /\ \E ic \in SeqsUpTo(FoldIssueComments, MaxBatch),
          prc \in SeqsUpTo(FoldPullComments, MaxBatch),
          rev \in SeqsUpTo(FoldReviews, MaxBatch) :
          arg = [issue_comments |-> ic, pull_request_comments |-> prc,
                 pull_request_reviews |-> rev]
    /\ op = "worker"
    /\ out = <<>>

HarnessFold ==
    /\ op = "worker"
    /\ pc = "harness"
    /\ out' = [o \in Orders |-> fold_in_order(self, o, arg)]
    /\ op' = "fold"
    /\ UNCHANGED <<self, arg, pipeline_vars>>

NextFold == HarnessFold

SpecFold == InitFold /\ [][NextFold]_vars

\* C20: whatever the issue-comment, PR-comment and PR-review batches, folding
\* them into an Aggregate in any of the six orders gives the six counter
\* maps that the order of the worker task gives, lgtms included.
C20_FoldOrderIrrelevant ==
    op = "fold" =>
        /\ Cardinality(Orders) = 6
        /\ \A o \in Orders : counter_maps(out[o]) = counter_maps(out[WorkerOrder])

\* A PR comment holding a marker and an approved review, both by alice and
\* in the window, were folded: her lgtms is two higher in every order.
C20_Witness ==
    /\ op = "fold"
    /\ arg.pull_request_comments = <<PullComment(Some("alice"), 2, 2, <<"L", "l">>)>>
    /\ arg.pull_request_reviews = <<Review(Some("alice"), Some(2), Some("Approved"))>>
    /\ arg.issue_comments # <<>>
    /\ \A o \in Orders :
          count_of(out[o].lgtms, "alice") = count_of(self.lgtms, "alice") + 2

---------------------------------------------------------------------------
(* Further claims about the pipeline.                                      *)

\* The numbers of the records of worker r's issue batch with (marker = TRUE)
\* or without (marker = FALSE) the pull-request marker.
NumbersOf(r, marker) ==
    LET batch == unwrap(worker[r].issues_and_prs)
    IN {batch[k].number : k \in {j \in 1..Len(batch) : batch[j].pull_request = marker}}

\* C21: once a worker has started its dependent fetches, the numbers given
\* to the issue-comment fetch are exactly those of the fetched records
\* without the pull-request marker and the numbers given to the review fetch
\* exactly those with it, each number once; the two sets are disjoint and
\* cover every fetched record, whoever its author and whatever its creation
\* time.
C21_IssueBatchPartition ==
    \A r \in Workers :
        Started(r) # {} =>
            LET batch == unwrap(worker[r].issues_and_prs)
                plain == chan[r].issue_comments.args
                pulls == chan[r].pull_request_reviews.args
            IN /\ SeqToSet(plain) = NumbersOf(r, FALSE)
               /\ SeqToSet(pulls) = NumbersOf(r, TRUE)
               /\ SeqToSet(plain) \cap SeqToSet(pulls) = {}
               /\ SeqToSet(plain) \cup SeqToSet(pulls)
                     = {batch[k].number : k \in 1..Len(batch)}
               /\ Len(plain) + Len(pulls) = Len(batch)

\* A worker's batch holds a pull request by mallory, who is not allow-listed,
\* and another worker's a plain issue created after the window: the first
\* went to the review fetch, the second to the issue-comment fetch.
C21_Witness ==
    \E r1, r2 \in Workers :
        /\ Started(r1) = DependentKinds
        /\ Started(r2) = DependentKinds
        /\ \E k \in 1..Len(unwrap(worker[r1].issues_and_prs)) :
              LET issue == unwrap(worker[r1].issues_and_prs)[k]
              IN /\ issue.user = "mallory" /\ issue.pull_request
                 /\ issue.number \in SeqToSet(chan[r1].pull_request_reviews.args)
        /\ \E k \in 1..Len(unwrap(worker[r2].issues_and_prs)) :
              LET issue == unwrap(worker[r2].issues_and_prs)[k]
              IN /\ issue.created_at > Window.end /\ ~issue.pull_request
                 /\ issue.number \in SeqToSet(chan[r2].issue_comments.args)

\* C22: in every state of the pipeline the labels map of every worker's
\* Aggregate, of every Aggregate in the handoff channel and of the report is
\* empty.
C22_LabelsNeverPopulated ==
    /\ \A r \in Workers : worker[r].stats.labels = EmptyMap
    /\ \A k \in 1..Len(rx) : rx[k].labels = EmptyMap
    /\ is_some(stats) => unwrap(stats).labels = EmptyMap

\* Two workers folded all four batches, main merged both Aggregates and
\* reported: the five other maps have entries, labels has none.
C22_Witness ==
    /\ pc = "done"
    /\ Len(worker) = 2
    /\ \A r \in Workers : worker[r].folded = Kinds /\ worker[r].handed = 1
    /\ is_some(stats)
    /\ \A c \in Categories \ {"labels"} : unwrap(stats)[c] # EmptyMap
    /\ unwrap(stats).labels = EmptyMap

---------------------------------------------------------------------------
(* The pipeline under fair scheduling: the runtime keeps polling main and  *)
(* every spawned task that can make a step, and every fetch that was       *)
(* started completes (its task sends its batch or ends without one).       *)

MainStep ==
    \/ MainSpawn
    \/ MainSpawned
    \/ MainJoin
    \/ MainDropTx
    \/ MainRecv
    \/ MainReport

WorkerStep(r) ==
    /\ r \in 1..Len(worker)
    /\ \/ WorkerStart(r)
       \/ WorkerRecvIssues(r)
       \/ WorkerRecvIssueComments(r)
       \/ WorkerRecvPullRequestComments(r)
       \/ WorkerRecvPullRequestReviews(r)

FetchStep(r) ==
    /\ r \in 1..Len(worker)
    /\ \/ FetchIssuesTask(r)
       \/ FetchIssueCommentsTask(r)
       \/ FetchPullRequestCommentsTask(r)
       \/ FetchPullRequestReviewsTask(r)
       \/ \E k \in Kinds : FetchTaskAbort(r, k)

\* The configurations of the fair runs: two small repositories, one
\* repository, a malformed identifier after a well-formed one, none.
FairConfigs == {<<RepoC, RepoC>>, <<RepoA>>, <<RepoC, Malformed>>, <<>>}

\* The positions a worker can have in the list of tasks.
RepoIndexes == UNION {DOMAIN config : config \in RepoConfigs \cup FairConfigs}

InitFair ==
    /\ repos \in FairConfigs
    /\ pc = "spawn"
    /\ idx = 1
    /\ worker = <<>>
    /\ chan = <<>>
    /\ tx_count = 1
    /\ rx = <<>>
    /\ stats = None
    /\ HarnessIdle

SpecFair ==
    /\ InitFair
    /\ [][Next]_vars
    /\ WF_vars(MainStep)
    /\ \A r \in RepoIndexes : WF_vars(WorkerStep(r)) /\ WF_vars(FetchStep(r))

\* C23 as stated: under fair scheduling, with every started fetch
\* completing, every worker task finishes and main reports.
C23_AlwaysReports == <>(pc = "done" /\ AllWorkersFinished)

\* C23, amended: under fair scheduling, with every started fetch completing,
\* a run whose repository identifiers are all well-formed reaches the report
\* with a worker spawned for every repository, every worker task finished,
\* the handoff channel empty and every sender dropped; a run with a
\* malformed identifier ends in the exit of the process instead.
C23_TerminatesOrExits ==
    <>(IF MalformedAt = {}
       THEN /\ pc = "done"
            /\ Len(worker) = Len(repos)
            /\ AllWorkersFinished
            /\ rx = <<>>
            /\ tx_count = 0
       ELSE pc = "exited")

\* Both workers handed off before main looked at the channel, one of them
\* past a fetch that ended without a batch; main has reported, the channel
\* is empty and closed.
C23_Witness ==
    /\ pc = "done"
    /\ MalformedAt = {}
    /\ Len(worker) = 2
    /\ AllWorkersFinished
    /\ \A r \in Workers : worker[r].handed = 1
    /\ \E r \in Workers : \E k \in DependentKinds : chan[r][k].st = "closed"
    /\ rx = <<>>
    /\ tx_count = 0
    /\ is_some(stats)

====
